---- MODULE Spec2Model ----
(***************************************************************************)
(* Model of PED_Sorter.py: the tag catalog (TagsManager) and the           *)
(* classification / naming traversal of PEDSorterApp.                      *)
(*                                                                         *)
(* Text is modelled as a sequence of one-character strings.  The module    *)
(* is written in ASCII, so Cyrillic literals of the source are             *)
(* transliterated (the constant 'ЛС' is <<"L","S">>) and the numero sign   *)
(* U+2116 is written "#".                                                  *)
(***************************************************************************)
EXTENDS Integers, Sequences, FiniteSets, TLC

(***************************************************************************)
(* Text primitives (Python str methods and the re module, as used).        *)
(***************************************************************************)
UpperCase == <<"A","B","C","D","E","F","G","H","I","J","K","L","M",
               "N","O","P","Q","R","S","T","U","V","W","X","Y","Z">>

LowerCase == <<"a","b","c","d","e","f","g","h","i","j","k","l","m",
               "n","o","p","q","r","s","t","u","v","w","x","y","z">>

Digits == {"0","1","2","3","4","5","6","7","8","9"}

Range(s) == {s[i] : i \in 1..Len(s)}

SetMax(S) == CHOOSE m \in S : \A k \in S : k <= m

SetMin(S) == CHOOSE m \in S : \A k \in S : m <= k

\* the lower-case letter of every upper-case letter
LowerOf == [c \in {UpperCase[i] : i \in 1..26} |->
               LowerCase[CHOOSE i \in 1..26 : UpperCase[i] = c]]

\* str.lower() on one character
LowerChar(c) == IF c \in DOMAIN LowerOf THEN LowerOf[c] ELSE c

\* str.lower()
StrLower(s) == [i \in 1..Len(s) |-> LowerChar(s[i])]

\* str.startswith(p)
StartsWith(s, p) == Len(p) <= Len(s) /\ SubSeq(s, 1, Len(p)) = p

\* str.endswith(p)
EndsWith(s, p) == Len(p) <= Len(s) /\ SubSeq(s, Len(s) - Len(p) + 1, Len(s)) = p

\* start positions of the occurrences of p in s
Occurrences(s, p) ==
    {i \in 1..(Len(s) - Len(p) + 1) : SubSeq(s, i, i + Len(p) - 1) = p}

\* Python `p in s` on strings
Contains(s, p) == Occurrences(s, p) # {}

\* s.split(p)[-1] for a non-empty separator p that does not overlap itself
SplitLast(s, p) ==
    IF Occurrences(s, p) = {} THEN s
    ELSE SubSeq(s, SetMax(Occurrences(s, p)) + Len(p), Len(s))

\* str.strip()
Strip(s) ==
    LET keep == {i \in 1..Len(s) : s[i] # " "}
    IN  IF keep = {} THEN <<>> ELSE SubSeq(s, SetMin(keep), SetMax(keep))

\* Python `x in list`
InList(x, l) == \E i \in 1..Len(l) : l[i] = x

\* The patterns of the model are literal characters, the wildcard "." and
\* an opening parenthesis that is never closed, which re rejects (re.error).
ReError(p) == "(" \in Range(p)

\* re.search(p, t, re.IGNORECASE) for a pattern re accepts
ReSearch(p, t) ==
    \E i \in 1..(Len(t) - Len(p) + 1) :
        \A j \in 1..Len(p) :
            p[j] = "." \/ LowerChar(p[j]) = LowerChar(t[i + j - 1])

\* re.split(r'[_\-. ]+', s): the tokens between runs of separators
Separators == {"_", "-", ".", " "}

RECURSIVE SplitFrom(_, _, _, _)
SplitFrom(s, i, cur, out) ==
    IF i > Len(s) THEN Append(out, cur)
    ELSE IF s[i] \in Separators
         THEN IF i > 1 /\ s[i - 1] \in Separators
              THEN SplitFrom(s, i + 1, cur, out)
              ELSE SplitFrom(s, i + 1, <<>>, Append(out, cur))
         ELSE SplitFrom(s, i + 1, Append(cur, s[i]), out)

ReSplitSeparators(s) == SplitFrom(s, 1, <<>>, <<>>)

\* s.split('-'): every piece, empty ones included
RECURSIVE DashFrom(_, _, _, _)
DashFrom(s, i, cur, out) ==
    IF i > Len(s) THEN Append(out, cur)
    ELSE IF s[i] = "-"
         THEN DashFrom(s, i + 1, <<>>, Append(out, cur))
         ELSE DashFrom(s, i + 1, Append(cur, s[i]), out)

DashParts(s) == DashFrom(s, 1, <<>>, <<>>)

\* \d{1,2}
OneOrTwoDigits(s) == Len(s) \in {1, 2} /\ Range(s) \subseteq Digits

\* position of the dot that starts the extension for os.path.splitext:
\* the last dot, unless only dots precede it; 0 when there is none
SplitextDot(name) ==
    LET dots == {i \in 1..Len(name) : name[i] = "."}
    IN  IF dots = {} THEN 0
        ELSE LET d == SetMax(dots)
             IN  IF \E k \in 1..(d - 1) : name[k] # "." THEN d ELSE 0

\* os.path.splitext(name)[0]
SplitextRoot(name) ==
    IF SplitextDot(name) = 0 THEN name ELSE SubSeq(name, 1, SplitextDot(name) - 1)

\* os.path.splitext(name)[1]
SplitextExt(name) ==
    IF SplitextDot(name) = 0 THEN <<>> ELSE SubSeq(name, SplitextDot(name), Len(name))

\* pathlib.Path(name).suffix: the last dot and what follows it, unless the
\* dot is the first or the last character
PathSuffix(name) ==
    LET dots == {i \in 1..Len(name) : name[i] = "."}
    IN  IF dots = {} THEN <<>>
        ELSE LET d == SetMax(dots)
             IN  IF 1 < d /\ d < Len(name) THEN SubSeq(name, d, Len(name)) ELSE <<>>

\* the extensions the program tells apart
PDF == <<".","p","d","f">>

XLS == <<".","x","l","s">>

XLSX == <<".","x","l","s","x">>

(***************************************************************************)
(* State.                                                                  *)
(***************************************************************************)
VARIABLES
    tags_data,          \* TagsManager.tags_data: the types in dict order
    tree,               \* the files on disk: [top |-> names, sub |-> names]
    checkBox_subfolders,        \* ui.checkBox_subfolders
    search_in_file_checkBox,    \* ui.search_in_file_checkBox
    ex_name_comment,    \* ui.exname_checkBox, read when a traversal starts
    ex_name_len,        \* ui.exname_spinBox
    pc,                 \* "idle", or "walking" inside traverse_directory
    walk_generator,     \* the (root, files) pairs of the running traversal
    dir_index,          \* position of the outer loop
    file_index,         \* position of the inner loop
    files_count,        \* local files_count
    progressBar,        \* ui.progressBar value
    filenames,          \* self.filenames, in insertion order
    amount_of_documents_8_type,
    type_id,            \* the loop variable that outlives its loops
    new_name_result,    \* the local that outlives each file's iteration
    Table,              \* ui.Table rows
    table_is_full,
    traversals,         \* traversals started so far
    raised,             \* the exception that ended the last traversal
    reads,              \* per path: content extractions in this traversal
    tested,             \* paths whose content was tested against tags
    named_8,            \* paths named by create_name_for_8_...
    name_phase,         \* per path: the type after the filename phase
    cn_in,              \* arguments of a direct call of the estimate naming
    cn_out,             \* its result
    nv_in,              \* arguments of a direct call of is_name_valid
    nv_out,             \* its result
    checkBox_copy_undefined,        \* ui.checkBox_copy_undefined
    rename_radioButton_this_files,  \* ui.rename_radioButton_this_files
    rn_pc,              \* "idle", or "renaming" inside rename_files
    rn_row,             \* position of the loop of rename_files
    results,            \* its local results
    operations,         \* what the last batch of rename_files did with each row
    rn_calls,           \* presses of the rename button so far
    target_files,       \* the names present in the output directory (copy mode)
    edits,              \* cells of column 3 the user has edited so far
    tags_file,          \* what file_types_base.json holds
    tm_out,             \* outcome of the last TagsManager call
    tm_calls            \* TagsManager calls made so far

vars == <<tags_data, tree, checkBox_subfolders, search_in_file_checkBox,
          ex_name_comment, ex_name_len, pc, walk_generator, dir_index,
          file_index, files_count, progressBar, filenames,
          amount_of_documents_8_type, type_id, new_name_result, Table,
          table_is_full, traversals, raised, reads, tested, named_8,
          name_phase, cn_in, cn_out, nv_in, nv_out, checkBox_copy_undefined,
          rename_radioButton_this_files, rn_pc, rn_row, results, operations,
          rn_calls, target_files, edits, tags_file, tm_out, tm_calls>>

\* the variables the traversal does not touch
validator_vars == <<nv_in, nv_out>>

rename_vars == <<checkBox_copy_undefined, rename_radioButton_this_files, rn_pc,
                 rn_row, results, operations, rn_calls, target_files, edits>>

tags_vars == <<tags_file, tm_out, tm_calls>>

\* the variables of a running traversal
walk_vars == <<pc, walk_generator, dir_index, file_index, files_count,
               progressBar, amount_of_documents_8_type, type_id,
               new_name_result, traversals, raised, reads, tested, named_8,
               name_phase>>

\* the inputs of a traversal
input_vars == <<tree, checkBox_subfolders, search_in_file_checkBox,
                ex_name_comment, ex_name_len>>

(***************************************************************************)
(* Constants of PEDSorterApp.__init__.                                     *)
(***************************************************************************)
UNKNOWN == <<"?">>

\* the display value of self.UNKNOWN in the type and mask columns
UNKNOWN_TYPE == "?"

DEFAULT_VERSION == <<"B","A","Z">>

DEFAULT_VERSION_NUMBER == <<>>

\* 'Подтверждающие документы'
SUPPORTING == "Podtverzhdayushchie dokumenty"

\* 'Расчеты на прочие затраты'
OTHER_EXPENSES == "Raschety na prochie zatraty"

\* 'Сводный реестр сметной документации'
REGISTER == "Svodnyi reestr smetnoi dokumentatsii"

\* 'Сметные расчеты на отдельные виды затрат'
SPECIFIC_COSTS == "Smetnye raschety na otdelnye vidy zatrat"

\* 'Сравнительная таблица изменения стоимости МТР по договору подряда (Форма 1.3)'
MTR_TABLE == "Sravnitelnaya tablitsa izmeneniya stoimosti MTR (Forma 1.3)"

\* the two types whose match does not stop a phase
CatchAll == {SUPPORTING, OTHER_EXPENSES}

TYPES_7_AND_THEIR_CODENAMES ==
    (OTHER_EXPENSES :> <<"?">>) @@
    ("Perevozka" :> <<"P","e","r","e","v","o","z","k","a">>) @@
    ("Komandirovochnye raskhody" :>
        <<"K","o","m","a","n","d","i","r","o","v","o","c","h","n","y","e">>) @@
    ("Perebazirovka" :> <<"P","e","r","e","b","a","z","i","r","o","v","k","a">>) @@
    ("Zatraty na okhranu truda" :>
        <<"O","k","h","r","a","n","a","T","r","u","d","a">>) @@
    ("Zatraty na provedenie puskonaladochnykh rabot (PNR)" :> <<"P","N","R">>) @@
    ("Ustroistvo dorog" :>
        <<"U","s","t","r","o","i","s","t","v","o","D","o","r","o","g">>) @@
    ("Dopolnitelnye zatraty pri proizvodstve rabot v zimnee vremya (ZU)" :>
        <<"Z","U">>) @@
    ("Plata za negativnoe vozdeistvie na okruzhayushchuyu sredu (NVOS)" :>
        <<"N","V","O","S">>) @@
    ("Transportirovka" :>
        <<"T","r","a","n","s","p","o","r","t","i","r","o","v","k","a">>) @@
    ("Plavsredstva" :> <<"P","l","a","v","s","r","e","d","s","t","v","a">>) @@
    ("Zatraty na monitoring komponentov okruzhayushchei sredy (PEM)" :>
        <<"P","E","M">>)

\* (the source spells the name with the last two letters swapped)
TYPES_8_AND_THEIR_CODENAMSE ==
    (SUPPORTING :> <<"?">>) @@
    ("Vedomost obemov rabot" :> <<"V","O","R">>) @@
    ("Defektnaya vedomost" :> <<"D","V">>) @@
    ("Kommercheskoe predlozhenie" :> <<"K","P">>) @@
    ("Transportnaya skhema" :> <<"T","S">>) @@
    ("Obosnovanie k raschetu prochikh zatrat" :>
        <<"O","b","o","s","n","o","v","a","n","i","e","P","r","o","c","h","i","k","h">>) @@
    ("Konyunkturnyi analiz" :> <<"K","A">>)

\* 'Обоснование к расчету прочих затрат', as a character string, which the
\* supporting-documents naming compares with the code name
JUSTIFICATION_TEXT ==
    <<"O","b","o","s","n","o","v","a","n","i","e"," ","k"," ",
      "r","a","s","c","h","e","t","u"," ","p","r","o","c","h","i","k","h"," ",
      "z","a","t","r","a","t">>

\* Python None, and the values that are told apart from it
None == [kind |-> "None", lines |-> <<>>]

\* a pandas DataFrame read without header: its rows, each the row's
\* non-empty cells joined
DataFrame(rows) == [kind |-> "DataFrame", lines |-> rows]

\* the text of a PDF page as its lines; '' is one empty line
Text(lines) == [kind |-> "str", lines |-> lines]

EmptyText == Text(<< <<>> >>)

DigitChar == <<"0","1","2","3","4","5","6","7","8","9">>

\* str(n) for a natural number
RECURSIVE IntToStr(_)
IntToStr(n) ==
    IF n < 10 THEN <<DigitChar[n + 1]>>
    ELSE IntToStr(n \div 10) \o <<DigitChar[(n % 10) + 1]>>

(***************************************************************************)
(* Inputs: the catalogs the program may load and the files it may find.    *)
(***************************************************************************)
MaxTop == 2          \* files in the chosen directory

MaxSub == 1          \* files in its sub-directory

MaxTraversals == 2   \* presses of the search button

ExNameLen == 3       \* the value of the truncation spin box

\* _load_tags: the catalog used when the tags file is missing or unreadable
\* (its display name 'файл с тэгами не обнаружен')
default_tags ==
    << [id |-> "1", type |-> "fail s tegami ne obnaruzhen",
        name_tags |-> <<>>, internal_tags |-> <<>>, mask |-> ""] >>

\* a catalog as file_types_base.json holds it: the three estimate types,
\* the supporting-documents catch-all and one of its specific members
CatalogMain ==
    << [id |-> "1", type |-> "Lokalnaya smeta",
        name_tags |-> << <<"l","s">> >>,
        internal_tags |-> << <<"l","s","r">> >>, mask |-> "LS-XX-XX-XX-BAZ"],
       [id |-> "2", type |-> "Obektnaya smeta",
        name_tags |-> << <<"o","s">> >>,
        internal_tags |-> << <<"o","s","r">> >>, mask |-> "OS-XX-XX-BAZ"],
       [id |-> "3", type |-> "Svodnyi smetnyi raschet",
        name_tags |-> << <<"s","s","r">> >>,
        internal_tags |-> << <<"s","s","r">> >>, mask |-> "SSR-XX-BAZ"],
       [id |-> "8", type |-> SUPPORTING,
        name_tags |-> << <<"p","o","d","t","v">> >>,
        internal_tags |-> <<>>, mask |-> "PODTV-TIP-N-BAZ"],
       [id |-> "9", type |-> "Vedomost obemov rabot",
        name_tags |-> << <<"v","o","r">> >>,
        internal_tags |-> << <<"v","e","d","o","m","o","s","t">> >>,
        mask |-> "PODTV-VOR-N-BAZ"] >>

\* a catalog edited in the tags window: the other-expenses catch-all ahead
\* of the estimate types, a content tag that is not a valid pattern, a name
\* tag that is a pattern
CatalogEdited ==
    << [id |-> "7", type |-> OTHER_EXPENSES,
        name_tags |-> << <<"o","s">> >>,
        internal_tags |-> <<>>, mask |-> "PROCH-TIP-BAZ"],
       [id |-> "1", type |-> "Lokalnaya smeta",
        name_tags |-> << <<"l","s">> >>,
        internal_tags |-> << <<"l","s","r">>, <<"l","s","(">> >>,
        mask |-> "LS-XX-XX-XX-BAZ"],
       [id |-> "2", type |-> "Obektnaya smeta",
        name_tags |-> << <<"o","s">>, <<"v",".","r">> >>,
        internal_tags |-> << <<"o","s","r">> >>, mask |-> "OS-XX-XX-BAZ"],
       [id |-> "3", type |-> "Svodnyi smetnyi raschet",
        name_tags |-> << <<"s","s","r">> >>,
        internal_tags |-> << <<"s","s","r">> >>, mask |-> "SSR-XX-BAZ"] >>

Catalogs == {CatalogMain, CatalogEdited, default_tags}

ls_1_xlsx == <<"l","s","_","1",".","x","l","s","x">>

ls_1_pdf == <<"l","s","_","1",".","p","d","f">>

ls_1_xls == <<"l","s","_","1",".","x","l","s">>

b_xlsx == <<"b",".","x","l","s","x">>

vor_2_pdf == <<"v","o","r","_","2",".","p","d","f">>

vor_2_xls == <<"v","o","r","_","2",".","x","l","s">>

podtv_a_pdf == <<"p","o","d","t","v","_","a",".","p","d","f">>

os_ls_XLSX == <<"o","s","_","l","s",".","X","L","S","X">>

lock_b_xlsx == <<"~","$","b",".","x","l","s","x">>

c_xlsx == <<"c",".","x","l","s","x">>

long_pdf == <<"l","o","n","g",".","p","d","f">>

d_pdf == <<"d",".","p","d","f">>

\* a second copy of the estimate of ls_1.xlsx
ls_2_xlsx == <<"l","s","_","2",".","x","l","s","x">>

TopPool == {ls_1_xlsx, ls_1_pdf, ls_1_xls, b_xlsx, vor_2_pdf, vor_2_xls,
            podtv_a_pdf, os_ls_XLSX, lock_b_xlsx}

SubPool == {ls_1_pdf, lock_b_xlsx}

\* the files the estimate naming is called on directly
NamePool == TopPool \cup {c_xlsx, long_pdf, d_pdf}

\* what is in each file: b.xlsx cannot be read
DiskContent ==
    (ls_1_xlsx :> [readable |-> TRUE,
                   lines |-> << <<"S","m","e","t","a">>,
                                <<"L","S","R"," ","#"," ","0","2","-","0","1","-","0","3">> >>]) @@
    (ls_1_pdf :> [readable |-> TRUE,
                  lines |-> << <<"L","s","r"," ","N","e"," ","0","2","-","0","1">> >>]) @@
    (ls_1_xls :> [readable |-> TRUE,
                  lines |-> << <<"l","s","r"," ","#"," ","a","b","c">>,
                               <<"l","s","r"," ","#"," ","0","1","-","0","2">> >>]) @@
    (b_xlsx :> [readable |-> FALSE, lines |-> <<>>]) @@
    (vor_2_pdf :> [readable |-> TRUE,
                   lines |-> << <<"v","e","d","o","m","o","s","t">> >>]) @@
    (vor_2_xls :> [readable |-> TRUE,
                   lines |-> << <<"V","e","d","o","m","o","s","t">> >>]) @@
    (podtv_a_pdf :> [readable |-> TRUE,
                     lines |-> << <<"l","s","r"," ","#"," ","0","1","-","0","1","-","0","1">> >>]) @@
    (os_ls_XLSX :> [readable |-> TRUE,
                    lines |-> << <<"l","s","r"," ","#"," ","0","1","-","0","2">> >>]) @@
    (lock_b_xlsx :> [readable |-> FALSE, lines |-> <<>>]) @@
    (c_xlsx :> [readable |-> TRUE,
                lines |-> << <<"l","s","r"," ","#">>,
                             <<"l","s","r"," ","#"," ","0","5","-","0","6">> >>]) @@
    (long_pdf :> [readable |-> TRUE,
                  lines |-> [i \in 1..21 |->
                                IF i <= 20 THEN <<"x">>
                                ELSE <<"l","s","r"," ","#"," ","0","1","-","0","2">>]]) @@
    (ls_2_xlsx :> [readable |-> TRUE,
                   lines |-> << <<"S","m","e","t","a">>,
                                <<"L","S","R"," ","#"," ","0","2","-","0","1","-","0","3">> >>]) @@
    (d_pdf :> [readable |-> TRUE,
               lines |-> << <<"s","m","e","t","a"," ","5">>,
                            <<"S","S","R"," ","#"," ","7">>,
                            <<"o","s","r"," ","n"," ","1","2">> >>])

\* the sequences of distinct elements of S of length at most n
RECURSIVE Listings(_, _)
Listings(S, n) ==
    IF n = 0 THEN {<<>>}
    ELSE LET shorter == Listings(S, n - 1)
         IN  shorter \cup
             {Append(x[1], x[2]) :
                 x \in {y \in shorter \X S :
                           Len(y[1]) = n - 1 /\ y[2] \notin Range(y[1])}}

(***************************************************************************)
(* The files on disk.  A path is <<root, filename>>; what an extraction    *)
(* of a file yields is a property of the file and the same at every read.  *)
(***************************************************************************)
Path(root, filename) == <<root, filename>>

\* [readable |-> whether OCR / the workbook read succeeds,
\*  lines    |-> the page's lines, or the sheet's rows]
FileContent(filename) ==
    IF filename \in DOMAIN DiskContent THEN DiskContent[filename]
    ELSE [readable |-> FALSE, lines |-> <<>>]

\* extract_text_from_pdf_first_page: lower-cased text, '' on any failure
extract_text_from_pdf_first_page(filepath) ==
    LET c == FileContent(filepath[2])
    IN  IF c.readable /\ c.lines # <<>>
        THEN Text([i \in 1..Len(c.lines) |-> StrLower(c.lines[i])])
        ELSE EmptyText

\* read_xls_xlsx_file: the sheet's rows, None for a lock file, a file of
\* another extension or any read failure
read_xls_xlsx_file(filepath) ==
    LET name == filepath[2]
        c    == FileContent(name)
    IN  IF StartsWith(name, <<"~","$">>) THEN None
        ELSE IF ~(EndsWith(StrLower(name), XLSX) \/ EndsWith(StrLower(name), XLS))
        THEN None
        ELSE IF c.readable THEN DataFrame(c.lines)
        ELSE None

\* one tag against one piece of text, as both check_tags_in_* do it:
\* a pattern search, and a substring test when the pattern is invalid
TagInText(tag, text) ==
    IF ReError(tag) THEN Contains(text, StrLower(tag)) ELSE ReSearch(tag, text)

\* check_tags_in_pdf(text, tags)
check_tags_in_pdf(text, tags) ==
    /\ text # EmptyText
    /\ \E j \in 1..Len(tags) : \E i \in 1..Len(text.lines) :
           TagInText(tags[j], text.lines[i])

\* check_tags_in_excel(file_data, tags)
check_tags_in_excel(file_data, tags) ==
    /\ file_data # None
    /\ file_data.lines # <<>>
    /\ \E i \in 1..Len(file_data.lines) : \E j \in 1..Len(tags) :
           TagInText(tags[j], StrLower(file_data.lines[i]))

(***************************************************************************)
(* Name synthesis.                                                         *)
(***************************************************************************)
\* _create_comment(filename)
CreateComment(filename) ==
    IF ex_name_comment
    THEN <<"-","(","e","x"," ">>
         \o SubSeq(filename, 1, IF ex_name_len < Len(filename)
                                THEN ex_name_len ELSE Len(filename))
         \o <<".",".",".",")">>
    ELSE <<>>

lines_to_check == 20

ESTIMATE_NUMBER_UNKNOWN(tid) ==
    CASE tid = "1" -> <<"?","?","-","?","?","-","?","?">>
      [] tid = "2" -> <<"?","?","-","?","?">>
      [] tid = "3" -> <<"?","?">>

EstimateConst(tid) ==
    CASE tid = "1" -> <<"L","S">>
      [] tid = "2" -> <<"O","S">>
      [] tid = "3" -> <<"S","S","R">>

\* re.search(number_mask, candidate) for the three anchored masks
NumberMaskMatches(tid, candidate) ==
    LET parts == DashParts(candidate)
    IN  /\ \A i \in 1..Len(parts) : OneOrTwoDigits(parts[i])
        /\ Len(parts) \in (CASE tid = "1" -> {2, 3}
                             [] tid = "2" -> {1, 2}
                             [] tid = "3" -> {1})

\* the text after the last number sign, 'ne' or 'n' of a line, stripped
ExtractCandidate(row_data) ==
    IF Contains(row_data, <<"#">>) THEN Strip(SplitLast(row_data, <<"#">>))
    ELSE IF Contains(row_data, <<"n","e">>)
         THEN Strip(SplitLast(row_data, <<"n","e">>))
         ELSE Strip(SplitLast(row_data, <<"n">>))

\* the entry of tags_data with the given key
TypeData(tid) == tags_data[CHOOSE k \in 1..Len(tags_data) : tags_data[k].id = tid]

\* the loop over the tags of one line, left when a candidate is accepted
RECURSIVE ScanTags(_, _, _, _, _)
ScanTags(tid, tags, row_data, j, st) ==
    IF j > Len(tags) THEN st
    ELSE IF ReError(StrLower(tags[j])) THEN [st EXCEPT !.raised = "re.error"]
    ELSE IF ReSearch(StrLower(tags[j]), row_data)
         THEN LET candidate == ExtractCandidate(row_data)
              IN  IF NumberMaskMatches(tid, candidate)
                  THEN [st EXCEPT !.candidate = candidate,
                                  !.estimate_number = candidate]
                  ELSE ScanTags(tid, tags, row_data, j + 1,
                                [st EXCEPT !.candidate = candidate])
         ELSE ScanTags(tid, tags, row_data, j + 1, st)

\* whether the loop over the lines stops after a line
StopsScan(st) == st.candidate # <<>>

\* the loop over data_lines
RECURSIVE ScanLines(_, _, _, _, _)
ScanLines(tid, tags, data_lines, i, st) ==
    IF i > Len(data_lines) THEN st
    ELSE LET st1 == ScanTags(tid, tags, data_lines[i], 1, st)
         IN  IF st1.raised # "none" \/ StopsScan(st1) THEN st1
             ELSE ScanLines(tid, tags, data_lines, i + 1, st1)

FirstLines(lines) ==
    SubSeq(lines, 1, IF Len(lines) < lines_to_check THEN Len(lines) ELSE lines_to_check)

\* the second element of the returned pair
ReturnedNumber(st) == st.candidate

\* what a call of the estimate naming leaves in new_name_result: the
\* returned pair, the returned None, or nothing (the local is unbound)
Pair(name, number) == [kind |-> "pair", name |-> name, number |-> number]

NoResult == [kind |-> "None", name |-> <<>>, number |-> <<>>]

Unbound == [kind |-> "unbound", name |-> <<>>, number |-> <<>>]

\* the data_lines the estimate naming scans: the first rows of the sheet,
\* lower-cased, or the first lines of the page; the file is extracted here
\* when no data is handed in
DataLines(filepath, filename, file_data) ==
    LET isXls == EndsWith(filename, XLS) \/ EndsWith(filename, XLSX)
        data  == IF file_data # None THEN file_data
                 ELSE IF isXls THEN read_xls_xlsx_file(filepath)
                 ELSE extract_text_from_pdf_first_page(filepath)
    IN  IF isXls
        THEN [i \in 1..Len(FirstLines(data.lines)) |-> StrLower(data.lines[i])]
        ELSE FirstLines(data.lines)

\* create_name_for_123_local_object_summary_estimates(filepath, filename,
\* file_data, type_id).  The result: raised is the exception that escapes
\* ("none" when it returns), value the returned pair or None, read whether
\* the file was extracted here.
create_name_for_123(filepath, filename, file_data, tid) ==
    LET isXls == EndsWith(filename, XLS) \/ EndsWith(filename, XLSX)
        isPdf == EndsWith(filename, PDF)
        read  == (isXls \/ isPdf) /\ file_data = None
        st0   == [estimate_number |-> ESTIMATE_NUMBER_UNKNOWN(tid),
                  candidate |-> <<>>, raised |-> "none"]
        st    == ScanLines(tid, TypeData(tid).internal_tags,
                           DataLines(filepath, filename, file_data), 1, st0)
    IN  IF ~(isXls \/ isPdf)
        THEN [raised |-> "none", value |-> NoResult, read |-> FALSE]
        ELSE IF isXls /\ file_data = None /\ read_xls_xlsx_file(filepath) = None
        THEN [raised |-> "TypeError", value |-> NoResult, read |-> read]
        ELSE IF st.raised # "none"
        THEN [raised |-> st.raised, value |-> NoResult, read |-> read]
        ELSE [raised |-> "none",
              value  |-> Pair(EstimateConst(tid) \o <<"-">> \o st.estimate_number
                                \o <<"-">> \o DEFAULT_VERSION
                                \o DEFAULT_VERSION_NUMBER \o CreateComment(filename),
                              ReturnedNumber(st)),
              read   |-> read]

\* create_name_for_4_register_of_estimates
create_name_for_4(filename) ==
    <<"S","R","S","D">> \o <<"-">> \o DEFAULT_VERSION \o DEFAULT_VERSION_NUMBER
        \o CreateComment(filename)

\* create_name_for_5_specific_types_of_costs
create_name_for_5(filename) ==
    <<"S","R","O","V","Z">> \o <<"-">> \o DEFAULT_VERSION \o DEFAULT_VERSION_NUMBER
        \o CreateComment(filename)

\* create_name_for_6_MTR_cost_change_table
create_name_for_6(filename) ==
    <<"F","O","R","M","A","1",".","3">> \o <<"-">> \o DEFAULT_VERSION
        \o DEFAULT_VERSION_NUMBER \o CreateComment(filename)

\* create_name_for_7_other_expenses
create_name_for_7(filename, type) ==
    <<"P","R","O","C","H">> \o <<"-">> \o TYPES_7_AND_THEIR_CODENAMES[type]
        \o <<"-">> \o DEFAULT_VERSION \o DEFAULT_VERSION_NUMBER
        \o CreateComment(filename)

\* create_name_for_8_supporting_documents, given the counter it has just
\* incremented
create_name_for_8(filename, type, amount) ==
    LET type_of_document == TYPES_8_AND_THEIR_CODENAMSE[type]
    IN  IF type_of_document = JUSTIFICATION_TEXT
        THEN <<"P","O","D","T","V">> \o <<"-">> \o type_of_document
                 \o <<"-","T","I","P","P","R","O","C","H","-">> \o IntToStr(amount)
                 \o <<"-">> \o DEFAULT_VERSION \o DEFAULT_VERSION_NUMBER
                 \o CreateComment(filename)
        ELSE <<"P","O","D","T","V">> \o <<"-">> \o type_of_document
                 \o <<"-">> \o IntToStr(amount)
                 \o <<"-">> \o DEFAULT_VERSION \o DEFAULT_VERSION_NUMBER
                 \o CreateComment(filename)

(***************************************************************************)
(* traverse_directory: the work done for one file.                         *)
(***************************************************************************)
\* any(char in tag_pattern for char in '.*+?^$[]{}()|\\')
has_regex_specials(tag_pattern) ==
    Range(tag_pattern) \cap
        {".", "*", "+", "?", "^", "$", "[", "]", "{", "}", "(", ")", "|", "\\"} # {}

\* one name tag against the filename: a pattern search of the raw name
\* (an invalid pattern is passed over), or a literal token of the name
NameTagMatches(tag_pattern, filename) ==
    IF has_regex_specials(tag_pattern)
    THEN ~ReError(tag_pattern) /\ ReSearch(tag_pattern, filename)
    ELSE InList(StrLower(tag_pattern), ReSplitSeparators(StrLower(filename)))

\* a scan that no match ends, so that the last match wins
StopsPhase_Never(type) == FALSE

\* a scan that any match ends, a catch-all match included
StopsPhase_Always(type) == TRUE

\* whether a match of this type ends a phase
StopsPhase(type) == type \notin CatchAll

\* the filename phase from the k-th type on; acc is
\* [type, mask, type_found_in_name, type_id]
RECURSIVE NamePhaseFrom(_, _, _)
NamePhaseFrom(filename, k, acc) ==
    IF k > Len(tags_data) THEN acc
    ELSE LET type_data == tags_data[k]
             hit  == \E i \in 1..Len(type_data.name_tags) :
                         NameTagMatches(type_data.name_tags[i], filename)
             acc1 == IF hit
                     THEN [type |-> type_data.type, mask |-> type_data.mask,
                           type_found_in_name |-> StopsPhase(type_data.type),
                           type_id |-> type_data.id]
                     ELSE [acc EXCEPT !.type_id = type_data.id]
         IN  IF acc1.type_found_in_name THEN acc1
             ELSE NamePhaseFrom(filename, k + 1, acc1)

NamePhase(filename) ==
    NamePhaseFrom(filename, 1,
                  [type |-> UNKNOWN_TYPE, mask |-> UNKNOWN_TYPE,
                   type_found_in_name |-> FALSE, type_id |-> type_id])

\* name_without_ext + '.xls' in files or name_without_ext + '.xlsx' in files
HasSpreadsheetSibling(filename, files) ==
    \/ InList(SplitextRoot(filename) \o XLS, files)
    \/ InList(SplitextRoot(filename) \o XLSX, files)

\* a content loop entered also after a catch-all match of the filename
EntersContentPhase_AfterCatchAll(np) ==
    ~np.type_found_in_name /\ search_in_file_checkBox

\* the condition under which the content loop is entered
EntersContentPhase(np) ==
    /\ ~np.type_found_in_name
    /\ search_in_file_checkBox
    /\ np.type \notin CatchAll

\* whether a cached extraction result is taken for missing
CacheMissing(cache) == cache = None

\* the content phase from the k-th type on; acc is [type, mask, type_id,
\* pdf_text_cache, excel_text_cache, reads, tested]
RECURSIVE ContentPhaseFrom(_, _, _, _, _)
ContentPhaseFrom(filepath, files, extension, k, acc) ==
    IF k > Len(tags_data) THEN acc
    ELSE LET type_data == tags_data[k]
             doPdf == extension = PDF /\ ~HasSpreadsheetSibling(filepath[2], files)
             doXls == extension \in {XLS, XLSX}
             readPdf == doPdf /\ CacheMissing(acc.pdf_text_cache)
             readXls == doXls /\ CacheMissing(acc.excel_text_cache)
             pdf_text_cache == IF readPdf
                               THEN extract_text_from_pdf_first_page(filepath)
                               ELSE acc.pdf_text_cache
             excel_text_cache == IF readXls THEN read_xls_xlsx_file(filepath)
                                 ELSE acc.excel_text_cache
             presence_tags ==
                 IF doPdf THEN check_tags_in_pdf(pdf_text_cache, type_data.internal_tags)
                 ELSE IF doXls
                      THEN check_tags_in_excel(excel_text_cache, type_data.internal_tags)
                      ELSE FALSE
             acc1 == [type |-> IF presence_tags THEN type_data.type ELSE acc.type,
                      mask |-> IF presence_tags THEN type_data.mask ELSE acc.mask,
                      type_id |-> type_data.id,
                      pdf_text_cache |-> pdf_text_cache,
                      excel_text_cache |-> excel_text_cache,
                      reads |-> acc.reads + (IF readPdf \/ readXls THEN 1 ELSE 0),
                      tested |-> acc.tested \/ doPdf \/ doXls]
         IN  IF presence_tags /\ StopsPhase(type_data.type) THEN acc1
             ELSE ContentPhaseFrom(filepath, files, extension, k + 1, acc1)

\* whether the estimate naming is applied, given the type id left by the
\* loops
NamedAsEstimate(tid) == tid \in {"1", "2", "3"}

\* whether the supporting-documents naming is applied to a file of this type
NamedAsSupporting(type) == type \in DOMAIN TYPES_8_AND_THEIR_CODENAMSE

\* the locals of the body as the filename phase leaves them
BeforeContentPhase(np) ==
    [type |-> np.type, mask |-> np.mask, type_id |-> np.type_id,
     pdf_text_cache |-> None, excel_text_cache |-> None,
     reads |-> 0, tested |-> FALSE]

\* the content phase of one file, given the result np of its filename phase
ContentPhase(filepath, files, extension, np) ==
    IF EntersContentPhase(np)
    THEN ContentPhaseFrom(filepath, files, extension, 1, BeforeContentPhase(np))
    ELSE BeforeContentPhase(np)

\* whether the body takes the name and the number out of new_name_result
UsesResult(extension, cp) ==
    /\ cp.type_id # "unbound"
    /\ NamedAsEstimate(cp.type_id)
    /\ extension \in {XLS, XLSX, PDF}

\* the estimate naming of one file, given the result cp of the phases: the
\* call made for the file, or new_name_result as the earlier files left it
EstimateNaming(filepath, files, filename, extension, cp) ==
    IF ~UsesResult(extension, cp)
    THEN [raised |-> "none", value |-> new_name_result, read |-> FALSE]
    ELSE IF extension = PDF /\ ~HasSpreadsheetSibling(filename, files)
    THEN create_name_for_123(filepath, filename, cp.pdf_text_cache, cp.type_id)
    ELSE IF extension \in {XLS, XLSX}
    THEN create_name_for_123(filepath, filename, cp.excel_text_cache, cp.type_id)
    ELSE [raised |-> "none", value |-> new_name_result, read |-> FALSE]

\* the exception that leaves the body, "none" when the record is stored
BodyRaised(extension, cp, cn) ==
    IF cp.type_id = "unbound" THEN "UnboundLocalError"
    ELSE IF cn.raised # "none" THEN cn.raised
    ELSE IF UsesResult(extension, cp) /\ cn.value.kind = "unbound"
    THEN "UnboundLocalError"
    ELSE IF UsesResult(extension, cp) /\ cn.value.kind = "None" THEN "TypeError"
    ELSE "none"

\* the counter after the body
AmountAfter(type) ==
    IF NamedAsSupporting(type) THEN amount_of_documents_8_type + 1
    ELSE amount_of_documents_8_type

\* new_name after the estimate naming and the naming by type
NewName(filename, extension, cp, cn) ==
    IF NamedAsSupporting(cp.type)
    THEN create_name_for_8(filename, cp.type, AmountAfter(cp.type))
    ELSE IF cp.type \in DOMAIN TYPES_7_AND_THEIR_CODENAMES
         THEN create_name_for_7(filename, cp.type)
    ELSE IF cp.type = MTR_TABLE THEN create_name_for_6(filename)
    ELSE IF cp.type = SPECIFIC_COSTS THEN create_name_for_5(filename)
    ELSE IF cp.type = REGISTER THEN create_name_for_4(filename)
    ELSE IF UsesResult(extension, cp) THEN cn.value.name
    ELSE UNKNOWN

\* what the body leaves behind, given the results of its three parts
BodyOutcome(filepath, filename, extension, np, cp, cn) ==
    [raised |-> BodyRaised(extension, cp, cn),
     record |-> [filename |-> filename, type |-> cp.type,
                 new_name |-> NewName(filename, extension, cp, cn),
                 mask |-> cp.mask, extension |-> extension,
                 filepath |-> filepath,
                 estimate_number |-> IF UsesResult(extension, cp)
                                     THEN cn.value.number ELSE <<>>],
     type_id |-> cp.type_id,
     new_name_result |-> cn.value,
     amount |-> AmountAfter(cp.type),
     reads |-> cp.reads + (IF cn.read THEN 1 ELSE 0),
     tested |-> cp.tested,
     supporting |-> NamedAsSupporting(cp.type),
     name_type |-> np.type]

AfterContentPhase(filepath, files, filename, extension, np, cp) ==
    BodyOutcome(filepath, filename, extension, np, cp,
                EstimateNaming(filepath, files, filename, extension, cp))

AfterNamePhase(filepath, files, filename, extension, np) ==
    AfterContentPhase(filepath, files, filename, extension, np,
                      ContentPhase(filepath, files, extension, np))

\* The body of the loop for one file that is not a lock file: both phases,
\* the naming and the values of the record.
FileBody(root, files, filename) ==
    AfterNamePhase(Path(root, filename), files, filename,
                   StrLower(PathSuffix(filename)), NamePhase(filename))

(***************************************************************************)
(* self.filenames, share_info_from_xls_to_duplicates, populate_table.      *)
(***************************************************************************)
\* the key under which a record is stored
RecordKey(record) == record.filename

\* self.filenames[key] = record: an existing key keeps its place
DictSet(d, record) ==
    IF \E i \in 1..Len(d) : RecordKey(d[i]) = RecordKey(record)
    THEN [i \in 1..Len(d) |->
             IF RecordKey(d[i]) = RecordKey(record) THEN record ELSE d[i]]
    ELSE Append(d, record)

\* a propagation that forgets the estimate number
Overwritten_WithoutNumber(data2, data) ==
    [data2 EXCEPT !.new_name = data.new_name, !.type = data.type,
                  !.mask = data.mask]

\* the fields a spreadsheet record hands to a record of the same stem
Overwritten(data2, data) ==
    [data2 EXCEPT !.new_name = data.new_name, !.type = data.type,
                  !.mask = data.mask, !.estimate_number = data.estimate_number]

\* the outer loop of share_info_from_xls_to_duplicates from the i-th item on
RECURSIVE ShareFrom(_, _)
ShareFrom(d, i) ==
    IF i > Len(d) THEN d
    ELSE IF d[i].extension \in {XLS, XLSX}
         THEN ShareFrom(
                  [j \in 1..Len(d) |->
                      IF /\ SplitextRoot(d[j].filename) = SplitextRoot(d[i].filename)
                         /\ d[j].filename # d[i].filename
                      THEN Overwritten(d[j], d[i]) ELSE d[j]],
                  i + 1)
         ELSE ShareFrom(d, i + 1)

share_info_from_xls_to_duplicates(d) == ShareFrom(d, 1)

\* the rows populate_table writes: columns 0..5, the check box of column 4
\* as its state and whether the user may change it
TableRows(d) ==
    [row \in 1..Len(d) |->
        [filename |-> d[row].filename,
         type |-> d[row].type,
         mask |-> d[row].mask,
         new_name |-> d[row].new_name \o d[row].extension,
         checked |-> d[row].type # UNKNOWN_TYPE /\ "?" \notin Range(d[row].new_name),
         checkable |-> d[row].type # UNKNOWN_TYPE /\ "?" \notin Range(d[row].new_name),
         estimate_number |-> d[row].estimate_number]]

(***************************************************************************)
(* The traversal as steps: its start, one step per file, its end.          *)
(***************************************************************************)
\* os.walk(self.directory), or the one-entry list of the chosen directory
WalkOf(recursive) ==
    IF recursive
    THEN << [root |-> "top", files |-> tree.top],
            [root |-> "sub", files |-> tree.sub] >>
    ELSE << [root |-> "top", files |-> tree.top] >>

\* the paths a walk visits
PathsOf(walk) ==
    UNION {{Path(walk[d].root, walk[d].files[f]) : f \in 1..Len(walk[d].files)} :
              d \in 1..Len(walk)}

\* the first position of the loops at or after (d, f)
RECURSIVE Advance(_, _, _)
Advance(walk, d, f) ==
    IF d > Len(walk) THEN <<d, 1>>
    ELSE IF f <= Len(walk[d].files) THEN <<d, f>>
    ELSE Advance(walk, d + 1, 1)

AtFile == pc = "walking" /\ dir_index <= Len(walk_generator)

CurrentRoot == walk_generator[dir_index].root

CurrentFiles == walk_generator[dir_index].files

CurrentName == CurrentFiles[file_index]

\* the statements of traverse_directory before its loops; the model follows
\* the searches of a directory up to the first press of the rename button,
\* which may change the files the tree lists
StartTraverse ==
    /\ pc = "idle"
    /\ rn_calls = 0
    /\ traversals < MaxTraversals
    /\ traversals' = traversals + 1
    /\ pc' = "walking"
    /\ files_count' = 0
    /\ table_is_full' = FALSE
    /\ filenames' = <<>>
    /\ walk_generator' = WalkOf(checkBox_subfolders)
    /\ dir_index' = Advance(WalkOf(checkBox_subfolders), 1, 1)[1]
    /\ file_index' = Advance(WalkOf(checkBox_subfolders), 1, 1)[2]
    /\ type_id' = "unbound"
    /\ new_name_result' = Unbound
    /\ raised' = "none"
    /\ reads' = [p \in PathsOf(WalkOf(checkBox_subfolders)) |-> 0]
    /\ name_phase' = [p \in PathsOf(WalkOf(checkBox_subfolders)) |-> "unvisited"]
    /\ tested' = {}
    /\ named_8' = {}
    /\ UNCHANGED <<tags_data, tree, checkBox_subfolders, search_in_file_checkBox,
                   ex_name_comment, ex_name_len, progressBar,
                   amount_of_documents_8_type, Table, cn_in, cn_out,
                   validator_vars, rename_vars, tags_vars>>

\* one pass of the inner loop that ends normally: a lock file is passed
\* over, any other file gets its record and the progress bar moves
NextFile ==
    /\ AtFile
    /\ \E body \in {FileBody(CurrentRoot, CurrentFiles, CurrentName)},
          lock \in {StartsWith(CurrentName, <<"~","$">>)},
          path \in {Path(CurrentRoot, CurrentName)},
          pos  \in {Advance(walk_generator, dir_index, file_index + 1)} :
           /\ lock \/ body.raised = "none"
           /\ dir_index' = pos[1]
           /\ file_index' = pos[2]
           /\ IF lock
              THEN UNCHANGED <<filenames, files_count, progressBar,
                               amount_of_documents_8_type, type_id,
                               new_name_result, reads, tested, named_8,
                               name_phase>>
              ELSE /\ filenames' = DictSet(filenames, body.record)
                   /\ files_count' = files_count + 1
                   /\ progressBar' = ((files_count + 1) * 100) \div Len(CurrentFiles)
                   /\ amount_of_documents_8_type' = body.amount
                   /\ type_id' = body.type_id
                   /\ new_name_result' = body.new_name_result
                   /\ reads' = [reads EXCEPT ![path] = @ + body.reads]
                   /\ tested' = IF body.tested THEN tested \cup {path} ELSE tested
                   /\ named_8' = IF body.supporting THEN named_8 \cup {path}
                                 ELSE named_8
                   /\ name_phase' = [name_phase EXCEPT ![path] = body.name_type]
    /\ UNCHANGED <<tags_data, tree, checkBox_subfolders, search_in_file_checkBox,
                   ex_name_comment, ex_name_len, pc, walk_generator, Table,
                   table_is_full, traversals, raised, cn_in, cn_out,
                   validator_vars, rename_vars, tags_vars>>

\* one pass of the inner loop that raises: the exception leaves
\* traverse_directory (the event loop reports it and goes on), the
\* remaining files, the propagation and the table are not reached
FileRaises ==
    /\ AtFile
    /\ \E body \in {FileBody(CurrentRoot, CurrentFiles, CurrentName)},
          path \in {Path(CurrentRoot, CurrentName)} :
           /\ ~StartsWith(CurrentName, <<"~","$">>)
           /\ body.raised # "none"
           /\ raised' = body.raised
           /\ reads' = [reads EXCEPT ![path] = @ + body.reads]
           /\ tested' = IF body.tested THEN tested \cup {path} ELSE tested
           /\ name_phase' = [name_phase EXCEPT ![path] = body.name_type]
    /\ pc' = "idle"
    /\ type_id' = "unbound"
    /\ new_name_result' = Unbound
    /\ UNCHANGED <<tags_data, tree, checkBox_subfolders, search_in_file_checkBox,
                   ex_name_comment, ex_name_len, walk_generator, dir_index,
                   file_index, files_count, progressBar, filenames,
                   amount_of_documents_8_type, Table, table_is_full,
                   traversals, named_8, cn_in, cn_out,
                   validator_vars, rename_vars, tags_vars>>

\* the statements after the loops: propagation, populate_table, the
\* progress bar back to 0
FinishTraverse ==
    /\ pc = "walking"
    /\ dir_index > Len(walk_generator)
    /\ filenames' = share_info_from_xls_to_duplicates(filenames)
    /\ Table' = TableRows(share_info_from_xls_to_duplicates(filenames))
    /\ table_is_full' = TRUE
    /\ amount_of_documents_8_type' = 0
    /\ progressBar' = 0
    /\ pc' = "idle"
    /\ type_id' = "unbound"
    /\ new_name_result' = Unbound
    /\ UNCHANGED <<tags_data, tree, checkBox_subfolders, search_in_file_checkBox,
                   ex_name_comment, ex_name_len, walk_generator, dir_index,
                   file_index, files_count, traversals, raised, reads, tested,
                   named_8, name_phase, cn_in, cn_out,
                   validator_vars, rename_vars, tags_vars>>

NoCall == [called |-> FALSE]

\* no traversal has been started
NotSearched ==
    /\ ex_name_len = ExNameLen
    /\ pc = "idle"
    /\ walk_generator = <<>>
    /\ dir_index = 1
    /\ file_index = 1
    /\ files_count = 0
    /\ progressBar = 0
    /\ filenames = <<>>
    /\ amount_of_documents_8_type = 0
    /\ type_id = "unbound"
    /\ new_name_result = Unbound
    /\ traversals = 0
    /\ raised = "none"
    /\ reads = <<>>
    /\ tested = {}
    /\ named_8 = {}
    /\ name_phase = <<>>

\* rename_files has not been started, no cell has been edited
NotRenamed ==
    /\ rn_pc = "idle"
    /\ rn_row = 1
    /\ results = [success |-> 0, errors |-> 0, skipped |-> 0]
    /\ operations = <<>>
    /\ rn_calls = 0
    /\ edits = 0

\* the tags window has not been used: the store holds the loaded catalog
TagsLoaded ==
    /\ tags_file = tags_data
    /\ tm_out = NoCall
    /\ tm_calls = 0

\* the program after PEDSorterApp.__init__, before any button is pressed
Constructed ==
    /\ NotSearched
    /\ Table = <<>>
    /\ table_is_full = FALSE
    /\ checkBox_copy_undefined = FALSE
    /\ target_files = {}
    /\ rename_radioButton_this_files = TRUE
    /\ NotRenamed
    /\ TagsLoaded

Init ==
    /\ tags_data \in Catalogs
    /\ tree \in [top : Listings(TopPool, MaxTop), sub : Listings(SubPool, MaxSub)]
    /\ checkBox_subfolders \in BOOLEAN
    /\ search_in_file_checkBox \in BOOLEAN
    /\ ex_name_comment \in BOOLEAN
    /\ Constructed
    /\ cn_in = NoCall
    /\ cn_out = NoCall
    /\ nv_in = NoCall
    /\ nv_out = NoCall

Next == StartTraverse \/ NextFile \/ FileRaises \/ FinishTraverse

Spec == Init /\ [][Next]_vars

(***************************************************************************)
(* The estimate naming called on its own, on every file of NamePool, with  *)
(* the file's content handed in or left for it to extract.                 *)
(***************************************************************************)
\* what the caller's cache holds once the file has been extracted
Extracted(filename) ==
    IF EndsWith(filename, PDF)
    THEN extract_text_from_pdf_first_page(Path("top", filename))
    ELSE read_xls_xlsx_file(Path("top", filename))

EstimateIds == {tags_data[k].id : k \in 1..Len(tags_data)} \cap {"1", "2", "3"}

InitName ==
    /\ tags_data \in Catalogs
    /\ tree = [top |-> <<>>, sub |-> <<>>]
    /\ checkBox_subfolders = FALSE
    /\ search_in_file_checkBox = FALSE
    /\ ex_name_comment \in BOOLEAN
    /\ Constructed
    /\ cn_in \in {[called |-> TRUE, filename |-> f, file_data |-> c, type_id |-> t] :
                     <<f, t>> \in NamePool \X EstimateIds,
                     c \in {None} \cup {Extracted(g) : g \in NamePool}}
    /\ cn_in.file_data \in {None, Extracted(cn_in.filename)}
    /\ cn_out = NoCall
    /\ nv_in = NoCall
    /\ nv_out = NoCall

CallCreateName ==
    /\ cn_in # NoCall
    /\ cn_out = NoCall
    /\ cn_out' = [called |-> TRUE,
                  result |-> create_name_for_123(Path("top", cn_in.filename),
                                                 cn_in.filename, cn_in.file_data,
                                                 cn_in.type_id)]
    /\ UNCHANGED <<tags_data, tree, checkBox_subfolders, search_in_file_checkBox,
                   ex_name_comment, ex_name_len, pc, walk_generator, dir_index,
                   file_index, files_count, progressBar, filenames,
                   amount_of_documents_8_type, type_id, new_name_result, Table,
                   table_is_full, traversals, raised, reads, tested, named_8,
                   name_phase, cn_in,
                   validator_vars, rename_vars, tags_vars>>

NextName == CallCreateName

SpecName == InitName /\ [][NextName]_vars

(***************************************************************************)
(* is_name_valid, called on its own on the names over a small alphabet.    *)
(***************************************************************************)
MaxNameLen == 4      \* characters of a candidate name

\* a letter, an extension letter in both cases, the dot, the space, the
\* unknown marker and a character outside the allowed set
NameAlphabet == {"a", "P", "p", ".", " ", "?", "!"}

\* the characters of [a-zA-Z...0-9_\-\.\(\) ]
AllowedChars ==
    Range(UpperCase) \cup Range(LowerCase) \cup Digits
        \cup {"_", "-", ".", "(", ")", " "}

\* a validator without its test of the characters
MatchesAllowed_Anything(s) == TRUE

\* re.match(r'^[...]+$', s): $ also matches before one trailing newline
MatchesAllowed(s) ==
    /\ s # <<>>
    /\ \/ Range(s) \subseteq AllowedChars
       \/ /\ Len(s) > 1
          /\ s[Len(s)] = "\n"
          /\ Range(SubSeq(s, 1, Len(s) - 1)) \subseteq AllowedChars

\* a validator that does not look at the other rows
CollidesWithOtherRow_Never(new_name, current_row) == FALSE

\* the loop over the other rows of column 3
CollidesWithOtherRow(new_name, current_row) ==
    \E row \in 1..Len(Table) :
        row # current_row /\ Table[row].new_name = new_name

\* is_name_valid(new_name, current_row), rows counted from 1
is_name_valid(new_name, current_row) ==
    IF Strip(new_name) = <<>> THEN FALSE
    ELSE IF "?" \in Range(new_name) THEN FALSE
    ELSE IF CollidesWithOtherRow(new_name, current_row) THEN FALSE
    ELSE IF ~MatchesAllowed(new_name) THEN FALSE
    ELSE IF current_row \notin 1..Len(Table) THEN FALSE
    ELSE IF StrLower(SplitextExt(new_name))
                # StrLower(SplitextExt(Table[current_row].filename))
    THEN FALSE
    ELSE IF Strip(SplitextRoot(new_name)) = <<>> THEN FALSE
    ELSE IF SplitextRoot(new_name) \in {<<".">>, <<>>} THEN FALSE
    ELSE TRUE

\* the candidate names of the direct call
CandidateNames == UNION {[1..k -> NameAlphabet] : k \in 0..MaxNameLen}

\* a row of the table as populate_table and the user's edits leave it
TableRow(filename, new_name) ==
    [filename |-> filename, type |-> UNKNOWN_TYPE, mask |-> UNKNOWN_TYPE,
     new_name |-> new_name, checked |-> FALSE, checkable |-> FALSE,
     estimate_number |-> <<>>]

\* the original filenames of the validated row
OriginalNames == {<<"a",".","p">>, <<"p",".","P">>, <<"a">>}

\* what column 3 of the other row holds
OtherNames == {<<"a",".","p">>, <<"a">>}

InitValid ==
    /\ tags_data = default_tags
    /\ tree = [top |-> <<>>, sub |-> <<>>]
    /\ checkBox_subfolders = FALSE
    /\ search_in_file_checkBox = FALSE
    /\ ex_name_comment = FALSE
    /\ NotSearched
    /\ Table \in {<<TableRow(o, o), TableRow(<<"b">>, other)>> :
                     <<o, other>> \in OriginalNames \X OtherNames}
    /\ table_is_full = TRUE
    /\ checkBox_copy_undefined = FALSE
    /\ target_files = {}
    /\ rename_radioButton_this_files = TRUE
    /\ NotRenamed
    /\ TagsLoaded
    /\ cn_in = NoCall
    /\ cn_out = NoCall
    /\ nv_in \in [called : {TRUE}, new_name : CandidateNames, current_row : {1}]
    /\ nv_out = NoCall

CallIsNameValid ==
    /\ nv_in # NoCall
    /\ nv_out = NoCall
    /\ nv_out' = [called |-> TRUE,
                  result |-> is_name_valid(nv_in.new_name, nv_in.current_row)]
    /\ UNCHANGED <<tags_data, input_vars, walk_vars, filenames, Table,
                   table_is_full, cn_in, cn_out, nv_in, rename_vars, tags_vars>>

NextValid == CallIsNameValid

SpecValid == InitValid /\ [][NextValid]_vars

(***************************************************************************)
(* The table after a search: the user's edits of column 3, the check box   *)
(* of column 4, and rename_files over the rows.                            *)
(***************************************************************************)
MaxRows == 2         \* files in the directory the table is filled from

MaxEdits == 1        \* cells of column 3 the user edits

MaxBatches == 1      \* presses of the rename button

\* the files of the directory: two estimates that get the same name, a
\* file of unknown type, a file whose naming raises
TablePool == {ls_1_xlsx, ls_2_xlsx, b_xlsx, os_ls_XLSX}

\* what the output directory of the copy mode may already hold
TargetPool == {b_xlsx}

\* Path.exists(): the chosen directory and its sub-directory hold what the
\* tree lists, the output directory of the copy mode what target_files holds
Exists(path) ==
    IF path[1] = "top" THEN path[2] \in Range(tree.top)
    ELSE IF path[1] = "sub" THEN path[2] \in Range(tree.sub)
    ELSE path[2] \in target_files

\* target_path of rename_files
TargetRoot == IF rename_radioButton_this_files THEN "top" ELSE "out"

\* original_name in self.filenames
InFilenames(original_name) ==
    \E i \in 1..Len(filenames) : RecordKey(filenames[i]) = original_name

\* self.filenames[original_name]
FileInfo(original_name) ==
    filenames[CHOOSE i \in 1..Len(filenames) :
                  RecordKey(filenames[i]) = original_name]

\* file_info['filepath'] = target; self.filenames[new_name] =
\* self.filenames.pop(original_name)
DictMove(d, original_name, new_name, target) ==
    DictSet(SelectSeq(d, LAMBDA r : RecordKey(r) # original_name),
            [FileInfo(original_name) EXCEPT !.filename = new_name,
                                            !.filepath = target])

\* source_path.rename(target) in the chosen directory
Renamed(listing, original_name, new_name) ==
    Append(SelectSeq(listing, LAMBDA n : n # original_name /\ n # new_name),
           new_name)

\* what the user may type into column 3 of a row: the name another row
\* holds in column 3, or the original name of another row's file (a name
\* no row holds in column 3, valid when the extensions agree)
EditNames(row) ==
    {Table[other].new_name : other \in (1..Len(Table)) \ {row}}
        \cup {Table[other].filename : other \in (1..Len(Table)) \ {row}}

\* The user edits column 3 of a row: cellChanged -> on_cell_changed ->
\* update_row_status when the table is full.  is_name_valid reads the
\* other rows of column 3 and column 0 of this row, which the edit leaves
\* as they were.
EditCell ==
    /\ pc = "idle"
    /\ rn_pc = "idle"
    /\ edits < MaxEdits
    /\ \E row \in 1..Len(Table) : \E new_name \in EditNames(row) :
          /\ new_name # Table[row].new_name
          /\ Table' = IF table_is_full
                       THEN [Table EXCEPT
                                ![row].new_name = new_name,
                                ![row].checked = is_name_valid(new_name, row),
                                ![row].checkable = is_name_valid(new_name, row)]
                       ELSE [Table EXCEPT ![row].new_name = new_name]
    /\ edits' = edits + 1
    /\ UNCHANGED <<tags_data, input_vars, walk_vars, filenames, table_is_full,
                   cn_in, cn_out, validator_vars, checkBox_copy_undefined,
                   rename_radioButton_this_files, rn_pc, rn_row, results,
                   operations, rn_calls, target_files, tags_vars>>

\* The user ticks or clears the check box of a row whose box may be
\* changed (ItemIsUserCheckable); on_cell_changed ignores column 4.
ToggleCheck ==
    /\ pc = "idle"
    /\ rn_pc = "idle"
    /\ edits < MaxEdits
    /\ \E row \in 1..Len(Table) :
          /\ Table[row].checkable
          /\ Table' = [Table EXCEPT ![row].checked = ~Table[row].checked]
    /\ edits' = edits + 1
    /\ UNCHANGED <<tags_data, input_vars, walk_vars, filenames, table_is_full,
                   cn_in, cn_out, validator_vars, checkBox_copy_undefined,
                   rename_radioButton_this_files, rn_pc, rn_row, results,
                   operations, rn_calls, target_files, tags_vars>>

\* rename_files up to its loop: the button is enabled while the table is
\* full; the mode decides the target directory (a chosen or created output
\* directory in the copy mode)
StartRename ==
    /\ pc = "idle"
    /\ rn_pc = "idle"
    /\ table_is_full
    /\ rn_calls < MaxBatches
    /\ rn_calls' = rn_calls + 1
    /\ rn_pc' = "renaming"
    /\ rn_row' = 1
    /\ results' = [success |-> 0, errors |-> 0, skipped |-> 0]
    /\ operations' = <<>>
    /\ UNCHANGED <<tags_data, input_vars, walk_vars, filenames, Table,
                   table_is_full, cn_in, cn_out, validator_vars,
                   checkBox_copy_undefined, rename_radioButton_this_files,
                   target_files, edits, tags_vars>>

\* the row takes part in the batch: its box is checked, or the unchecked
\* rows are copied too
RowTaken(row) == Table[row].checked \/ checkBox_copy_undefined

\* new_name of the row in rename_files: column 3 of a checked row, column 0
\* of an unchecked one
RowTarget(row) ==
    IF Table[row].checked THEN Table[row].new_name ELSE Table[row].filename

\* a batch that does not ask the validator
RowRejected_Unvalidated(row) ==
    IF ~RowTaken(row) THEN "skipped"
    ELSE IF ~InFilenames(Table[row].filename) THEN "not found"
    ELSE IF ~Exists(FileInfo(Table[row].filename).filepath) THEN "missing"
    ELSE "none"

\* the row is passed over before any file operation, and how it is counted:
\* "none" when the row reaches the try block
RowRejected(row) ==
    IF ~RowTaken(row) THEN "skipped"
    ELSE IF ~is_name_valid(RowTarget(row), row) THEN "invalid"
    ELSE IF ~InFilenames(Table[row].filename) THEN "not found"
    ELSE IF ~Exists(FileInfo(Table[row].filename).filepath) THEN "missing"
    ELSE "none"

Outcome(row, outcome) ==
    [row |-> row, original_name |-> Table[row].filename,
     new_name |-> RowTarget(row), outcome |-> outcome]

\* the counter of results a row's outcome adds to
Counted(outcome) ==
    IF outcome \in {"renamed", "copied"} THEN "success"
    ELSE IF outcome \in {"skipped", "declined"} THEN "skipped"
    ELSE "errors"

\* one pass of the loop of rename_files.  The reply to the question about
\* an existing target and a failure of the file operation are inputs.
RenameRow ==
    /\ rn_pc = "renaming"
    /\ rn_row <= Len(Table)
    /\ \E reply \in {"Yes", "No"}, io_error \in BOOLEAN,
          target \in {<<TargetRoot, RowTarget(rn_row)>>} :
          \E outcome \in
              {IF RowRejected(rn_row) # "none" THEN RowRejected(rn_row)
               ELSE IF Exists(target) /\ reply = "No" THEN "declined"
               ELSE IF io_error THEN "failed"
               ELSE IF rename_radioButton_this_files THEN "renamed"
               ELSE "copied"} :
             /\ operations' = Append(operations, Outcome(rn_row, outcome))
             /\ results' = [results EXCEPT ![Counted(outcome)] = @ + 1]
             /\ IF outcome = "renamed"
                THEN /\ tree' = [tree EXCEPT
                                   !.top = Renamed(@, FileInfo(Table[rn_row].filename).filepath[2],
                                                   RowTarget(rn_row))]
                     /\ filenames' = DictMove(filenames, Table[rn_row].filename,
                                              RowTarget(rn_row), target)
                     /\ UNCHANGED target_files
                ELSE IF outcome = "copied"
                THEN /\ target_files' = target_files \cup {RowTarget(rn_row)}
                     /\ UNCHANGED <<tree, filenames>>
                ELSE UNCHANGED <<tree, filenames, target_files>>
    /\ rn_row' = rn_row + 1
    /\ UNCHANGED <<tags_data, checkBox_subfolders, search_in_file_checkBox,
                   ex_name_comment, ex_name_len, walk_vars, Table,
                   table_is_full, cn_in, cn_out, validator_vars,
                   checkBox_copy_undefined, rename_radioButton_this_files,
                   rn_pc, rn_calls, edits, tags_vars>>

\* after the loop: the message with the three counters
FinishRename ==
    /\ rn_pc = "renaming"
    /\ rn_row > Len(Table)
    /\ rn_pc' = "idle"
    /\ UNCHANGED <<tags_data, input_vars, walk_vars, filenames, Table,
                   table_is_full, cn_in, cn_out, validator_vars,
                   checkBox_copy_undefined, rename_radioButton_this_files,
                   rn_row, results, operations, rn_calls, target_files, edits,
                   tags_vars>>

\* the program with a directory of TablePool chosen, searched without
\* sub-directories
InitTable ==
    /\ tags_data = CatalogMain
    /\ tree \in [top : Listings(TablePool, MaxRows), sub : {<<>>}]
    /\ checkBox_subfolders = FALSE
    /\ search_in_file_checkBox = TRUE
    /\ ex_name_comment = FALSE
    /\ NotSearched
    /\ Table = <<>>
    /\ table_is_full = FALSE
    /\ checkBox_copy_undefined \in BOOLEAN
    /\ rename_radioButton_this_files \in BOOLEAN
    /\ target_files \in IF rename_radioButton_this_files THEN {{}}
                        ELSE SUBSET TargetPool
    /\ NotRenamed
    /\ TagsLoaded
    /\ cn_in = NoCall
    /\ cn_out = NoCall
    /\ nv_in = NoCall
    /\ nv_out = NoCall

NextTable ==
    \/ StartTraverse
    \/ NextFile
    \/ FileRaises
    \/ FinishTraverse
    \/ EditCell
    \/ ToggleCheck
    \/ StartRename
    \/ RenameRow
    \/ FinishRename

SpecTable == InitTable /\ [][NextTable]_vars

(***************************************************************************)
(* TagsManager: add_tag, remove_tag and change_mask as the tags window     *)
(* calls them, and _save_tags, which may fail.                             *)
(***************************************************************************)
MaxCalls == 3        \* calls of the TagsManager

\* the type ids of the calls: two of CatalogMain and one it does not hold
CallIds == {"1", "8", "77"}

\* the tags of the calls: a name tag of type 1 and two new ones
CallTagPool == {<<"l","s">>, <<"n">>, <<"m">>}

TagAreas == {"name_tags", "internal_tags"}

CallMasks == {"LS-BAZ"}

\* what open(..., 'w') and json.dump may do: the file is written; open
\* fails and the file stays; the dump fails and the file is left cut off
SaveOutcomes == {"written", "refused", "cut off"}

\* a tags file that holds no complete catalog
CutOff == <<>>

\* _save_tags(data) with the given outcome: the file afterwards
_save_tags(data, outcome) ==
    IF outcome = "written" THEN data
    ELSE IF outcome = "refused" THEN tags_file
    ELSE CutOff

\* type_id in self.tags_data
HasType(tid) == \E k \in 1..Len(tags_data) : tags_data[k].id = tid

\* self.tags_data[type_id][tag_area]
TagList(data, tid, tag_area) ==
    data[CHOOSE k \in 1..Len(data) : data[k].id = tid][tag_area]

\* the catalog with the list of one area of one type replaced
WithTagList(tid, tag_area, list) ==
    [k \in 1..Len(tags_data) |->
        IF tags_data[k].id = tid
        THEN [tags_data[k] EXCEPT ![tag_area] = list]
        ELSE tags_data[k]]

\* list.remove(x): the first occurrence goes
RECURSIVE ListRemove(_, _)
ListRemove(list, x) ==
    IF list = <<>> THEN <<>>
    ELSE IF Head(list) = x THEN Tail(list)
    ELSE <<Head(list)>> \o ListRemove(Tail(list), x)

\* an add_tag that does not look for the tag in the list
CanAdd_Unchecked(tid, new_tag, tag_area) == HasType(tid)

\* the two tests of add_tag
CanAdd(tid, new_tag, tag_area) ==
    /\ HasType(tid)
    /\ new_tag \notin Range(TagList(tags_data, tid, tag_area))

\* the test of remove_tag
CanRemove(tid, tag_to_remove, tag_area) ==
    /\ HasType(tid)
    /\ tag_to_remove \in Range(TagList(tags_data, tid, tag_area))

\* a call that changes the catalog and saves it: it returns True when the
\* file is written, and the exception of _save_tags leaves it otherwise
Mutation(call, changed) ==
    \E outcome \in SaveOutcomes :
        /\ tags_data' = changed
        /\ tags_file' = _save_tags(changed, outcome)
        /\ tm_out' = [call EXCEPT !.result = IF outcome = "written" THEN "True"
                                             ELSE "OSError"]

\* a call that returns False
Refusal(call) ==
    /\ tm_out' = [call EXCEPT !.result = "False"]
    /\ UNCHANGED <<tags_data, tags_file>>

TagsCall(op, tid, tag, tag_area) ==
    [called |-> TRUE, op |-> op, type_id |-> tid, tag |-> tag,
     tag_area |-> tag_area, result |-> "False"]

\* what a call of the TagsManager leaves alone
tags_frame == <<input_vars, walk_vars, filenames, Table, table_is_full, cn_in,
                cn_out, validator_vars, rename_vars>>

add_tag ==
    /\ tm_calls < MaxCalls
    /\ tm_calls' = tm_calls + 1
    /\ \E tid \in CallIds, new_tag \in CallTagPool, tag_area \in TagAreas :
          IF CanAdd(tid, new_tag, tag_area)
          THEN Mutation(TagsCall("add_tag", tid, new_tag, tag_area),
                        WithTagList(tid, tag_area,
                            Append(TagList(tags_data, tid, tag_area), new_tag)))
          ELSE Refusal(TagsCall("add_tag", tid, new_tag, tag_area))
    /\ UNCHANGED tags_frame

remove_tag ==
    /\ tm_calls < MaxCalls
    /\ tm_calls' = tm_calls + 1
    /\ \E tid \in CallIds, tag_to_remove \in CallTagPool, tag_area \in TagAreas :
          IF CanRemove(tid, tag_to_remove, tag_area)
          THEN Mutation(TagsCall("remove_tag", tid, tag_to_remove, tag_area),
                        WithTagList(tid, tag_area,
                            ListRemove(TagList(tags_data, tid, tag_area),
                                       tag_to_remove)))
          ELSE Refusal(TagsCall("remove_tag", tid, tag_to_remove, tag_area))
    /\ UNCHANGED tags_frame

change_mask ==
    /\ tm_calls < MaxCalls
    /\ tm_calls' = tm_calls + 1
    /\ \E tid \in CallIds, new_mask \in CallMasks :
          IF HasType(tid)
          THEN Mutation(TagsCall("change_mask", tid, new_mask, "mask"),
                        [k \in 1..Len(tags_data) |->
                            IF tags_data[k].id = tid
                            THEN [tags_data[k] EXCEPT !.mask = new_mask]
                            ELSE tags_data[k]])
          ELSE Refusal(TagsCall("change_mask", tid, new_mask, "mask"))
    /\ UNCHANGED tags_frame

\* the program with the tags window open on a loaded catalog
InitTags ==
    /\ tags_data \in {CatalogMain, default_tags}
    /\ tree = [top |-> <<>>, sub |-> <<>>]
    /\ checkBox_subfolders = FALSE
    /\ search_in_file_checkBox = FALSE
    /\ ex_name_comment = FALSE
    /\ Constructed
    /\ cn_in = NoCall
    /\ cn_out = NoCall
    /\ nv_in = NoCall
    /\ nv_out = NoCall

NextTags == add_tag \/ remove_tag \/ change_mask

SpecTags == InitTags /\ [][NextTags]_vars

(***************************************************************************)
(* Properties.                                                             *)
(***************************************************************************)
\* the files whose pass through the loop body has begun in this traversal
Processed == {p \in DOMAIN name_phase : name_phase[p] # "unvisited"}

\* the listing of the directory a path lies in
FilesAt(root) ==
    walk_generator[CHOOSE d \in 1..Len(walk_generator) :
                       walk_generator[d].root = root].files

ExtensionOf(p) == StrLower(PathSuffix(p[2]))

Finished == pc = "idle" /\ table_is_full

SameStem(a, b) == SplitextRoot(a.filename) = SplitextRoot(b.filename)

SameValues(a, b) ==
    /\ a.type = b.type
    /\ a.new_name = b.new_name
    /\ a.mask = b.mask
    /\ a.estimate_number = b.estimate_number

\* C1: no error raised while classifying or naming one file aborts the
\* traversal: a traversal that has ended has raised nothing and has
\* populated the table.
C1_NoErrorAbortsTraversal ==
    (pc = "idle" /\ traversals > 0) => (raised = "none" /\ table_is_full)

\* C2: after share_info_from_xls_to_duplicates has run at the end of a
\* traversal, every spreadsheet record and every other record of the same
\* filename stem have identical type, new_name, mask and estimate_number.
C2_SiblingsAgreeAfterPropagation ==
    Finished =>
        \A i, j \in 1..Len(filenames) :
            (/\ i # j
             /\ filenames[i].extension \in {XLS, XLSX}
             /\ SameStem(filenames[i], filenames[j]))
            => SameValues(filenames[i], filenames[j])

\* a finished traversal whose records hold two spreadsheets and a PDF of one
\* stem
C2_Witness ==
    /\ Finished
    /\ \E i, j, k \in 1..Len(filenames) :
           /\ filenames[i].extension = XLSX
           /\ filenames[j].extension = XLS
           /\ filenames[k].extension = PDF
           /\ SameStem(filenames[i], filenames[j])
           /\ SameStem(filenames[i], filenames[k])
           /\ filenames[k].estimate_number = filenames[i].estimate_number

\* the filename has a token equal to a literal name tag of the k-th type
HasLiteralToken(filename, k) ==
    \E i \in 1..Len(tags_data[k].name_tags) :
        /\ ~has_regex_specials(tags_data[k].name_tags[i])
        /\ InList(tags_data[k].name_tags[i], ReSplitSeparators(StrLower(filename)))

\* some name tag of the k-th type matches the filename
HasMatchingTag(filename, k) ==
    \E i \in 1..Len(tags_data[k].name_tags) :
        NameTagMatches(tags_data[k].name_tags[i], filename)

\* C3 as stated: a file whose filename has a token equal to a literal name
\* tag of a non-catch-all type T is classified as T by the filename phase,
\* whatever other types' tags also match.
C3_LiteralTagDecidesType ==
    \A p \in Processed : \A k \in 1..Len(tags_data) :
        (tags_data[k].type \notin CatchAll /\ HasLiteralToken(p[2], k))
        => name_phase[p] = tags_data[k].type

\* C3 amended: ... is classified as T by the filename phase, and its content
\* is not consulted, whether content search is enabled or not, provided no
\* non-catch-all type earlier in catalog order has a name tag matching the
\* filename.
C3_FirstLiteralTagDecidesType ==
    \A p \in Processed : \A k \in 1..Len(tags_data) :
        (/\ tags_data[k].type \notin CatchAll
         /\ HasLiteralToken(p[2], k)
         /\ \A e \in 1..(k - 1) :
                tags_data[e].type \in CatchAll \/ ~HasMatchingTag(p[2], e))
        => (name_phase[p] = tags_data[k].type /\ p \notin tested)

\* a file matched by the literal tags of two non-catch-all types, with
\* content search enabled, classified as the earlier one
C3_Witness ==
    /\ search_in_file_checkBox
    /\ \E p \in Processed : \E k, l \in 1..Len(tags_data) :
           /\ k < l
           /\ tags_data[k].type \notin CatchAll
           /\ tags_data[l].type \notin CatchAll
           /\ HasLiteralToken(p[2], k)
           /\ HasLiteralToken(p[2], l)
           /\ name_phase[p] = tags_data[k].type

\* C4: the supporting-documents counter is zero at the start of every
\* traversal, also after a traversal that did not run to completion.
C4_CounterZeroAtStart ==
    (pc = "walking" /\ Processed = {}) => amount_of_documents_8_type = 0

\* the direct call has returned a (name, number) pair
Returned ==
    /\ cn_out # NoCall
    /\ cn_out.result.raised = "none"
    /\ cn_out.result.value.kind = "pair"

\* the lines the direct call scans
CallLines == DataLines(Path("top", cn_in.filename), cn_in.filename, cn_in.file_data)

CallTags == TypeData(cn_in.type_id).internal_tags

\* a line contains a content tag of the type
LineTagged(line) ==
    \E j \in 1..Len(CallTags) : ReSearch(StrLower(CallTags[j]), line)

\* the base name built around a number
BaseName(number) ==
    EstimateConst(cn_in.type_id) \o <<"-">> \o number \o <<"-">>
        \o DEFAULT_VERSION \o DEFAULT_VERSION_NUMBER \o CreateComment(cn_in.filename)

\* C5: when none of the first 20 lines contains a content tag of the type,
\* the returned estimate number is the type's placeholder and the same
\* value is the number of the returned base name.
C5_PlaceholderReturnedAndEmbedded ==
    (Returned /\ \A i \in 1..Len(CallLines) : ~LineTagged(CallLines[i]))
    => /\ cn_out.result.value.number = ESTIMATE_NUMBER_UNKNOWN(cn_in.type_id)
       /\ cn_out.result.value.name = BaseName(cn_out.result.value.number)

\* the lines that contain a tag and whose candidate matches the number mask
AcceptedLines ==
    {i \in 1..Len(CallLines) :
        /\ LineTagged(CallLines[i])
        /\ NumberMaskMatches(cn_in.type_id, ExtractCandidate(CallLines[i]))}

\* C6: the first line that contains a content tag and whose candidate
\* matches the type's pattern supplies the number of the name, also after an
\* earlier tagged line whose candidate was rejected; the placeholder is used
\* only when no line yields an accepted number.
C6_FirstAcceptedLineWins ==
    Returned =>
        cn_out.result.value.name =
            BaseName(IF AcceptedLines = {}
                     THEN ESTIMATE_NUMBER_UNKNOWN(cn_in.type_id)
                     ELSE ExtractCandidate(CallLines[SetMin(AcceptedLines)]))

\* C7 as stated: the content of a file is tested exactly when the filename
\* phase found no non-catch-all match, the file is .pdf/.xls/.xlsx and
\* content search is enabled (a file matched only by a catch-all included).
C7_ContentPhaseAfterCatchAll ==
    \A p \in Processed :
        p \in tested <=>
            /\ name_phase[p] \in CatchAll \cup {UNKNOWN_TYPE}
            /\ ExtensionOf(p) \in {PDF, XLS, XLSX}
            /\ search_in_file_checkBox

\* C7 amended: the content of a file is tested exactly when the filename
\* phase matched no type at all, not even a catch-all, content search is
\* enabled, and the file is .xls/.xlsx or a .pdf without a same-stem
\* spreadsheet in its listing; a file matched only by a catch-all type is
\* not tested.
C7_ContentPhaseOnlyWhenUnmatched ==
    \A p \in Processed :
        p \in tested <=>
            /\ name_phase[p] = UNKNOWN_TYPE
            /\ search_in_file_checkBox
            /\ \/ ExtensionOf(p) \in {XLS, XLSX}
               \/ /\ ExtensionOf(p) = PDF
                  /\ ~HasSpreadsheetSibling(p[2], FilesAt(p[1]))

\* with content search enabled, a PDF matched only by a catch-all type has
\* been passed without a content test and a file matched by nothing has
\* been tested
C7_Witness ==
    /\ search_in_file_checkBox
    /\ \E p \in Processed :
           /\ name_phase[p] \in CatchAll
           /\ ExtensionOf(p) = PDF
           /\ ~HasSpreadsheetSibling(p[2], FilesAt(p[1]))
           /\ p \notin tested
    /\ \E q \in Processed : name_phase[q] = UNKNOWN_TYPE /\ q \in tested

\* C8: a .pdf with a same-stem spreadsheet in its listing is never
\* extracted, does not advance the supporting-documents counter, and its
\* final record holds the values of a spreadsheet sibling.
C8_PdfWithSiblingSkipped ==
    \A p \in Processed :
        (ExtensionOf(p) = PDF /\ HasSpreadsheetSibling(p[2], FilesAt(p[1])))
        => /\ reads[p] = 0
           /\ p \notin named_8
           /\ Finished =>
                  \E i, j \in 1..Len(filenames) :
                      /\ filenames[i].filepath = p
                      /\ filenames[j].extension \in {XLS, XLSX}
                      /\ SameStem(filenames[i], filenames[j])
                      /\ SameValues(filenames[i], filenames[j])

\* C9: within one traversal the content of a file is extracted at most
\* once, also when the extraction fails.
C9_ExtractedAtMostOnce == \A p \in DOMAIN reads : reads[p] <= 1

\* C10: after a completed traversal there is exactly one record for every
\* discovered file that is not a lock file, and none for a lock file.
C10_OneRecordPerFile ==
    Finished =>
        /\ \A p \in PathsOf(walk_generator) :
               ~StartsWith(p[2], <<"~","$">>)
               => Cardinality({i \in 1..Len(filenames) :
                                  filenames[i].filepath = p}) = 1
        /\ \A i \in 1..Len(filenames) :
               ~StartsWith(filenames[i].filename, <<"~","$">>)

\* the types of the catalog with a name tag matching the filename
MatchingTypes(filename) ==
    {k \in 1..Len(tags_data) : HasMatchingTag(filename, k)}

\* those of them that are not catch-all types
SpecificTypes(filename) ==
    {k \in MatchingTypes(filename) : tags_data[k].type \notin CatchAll}

\* C17: in the filename phase a catch-all match records its type without
\* stopping the scan: the first non-catch-all type in catalog order that
\* matches is the final result, also after a catch-all match; a catch-all
\* type is the result only if no non-catch-all type matches, and then it
\* is one of the catch-all types that matched.
C17_CatchAllYieldsToSpecificType ==
    \A p \in Processed :
        \E matching \in {MatchingTypes(p[2])} :
        \E specific \in {{k \in matching : tags_data[k].type \notin CatchAll}} :
            /\ specific # {}
                   => name_phase[p] = tags_data[SetMin(specific)].type
            /\ (specific = {} /\ matching # {})
                   => name_phase[p] \in {tags_data[k].type : k \in matching}
            /\ name_phase[p] \in CatchAll => specific = {}

\* a file matched by a catch-all type and by a non-catch-all type later in
\* the catalog, classified as the later one
C17_Witness ==
    \E p \in Processed : \E k \in MatchingTypes(p[2]) :
        /\ tags_data[k].type \in CatchAll
        /\ SpecificTypes(p[2]) # {}
        /\ k < SetMin(SpecificTypes(p[2]))
        /\ name_phase[p] = tags_data[SetMin(SpecificTypes(p[2]))].type

\* C18: within one traversal the supporting-documents counter is the
\* number of files named as supporting documents so far, so the k-th such
\* file carries the number k in its name.
C18_KthSupportingFileGetsK ==
    pc = "walking" =>
        /\ amount_of_documents_8_type = Cardinality(named_8)
        /\ \A i \in 1..Len(filenames) :
               filenames[i].filepath \in named_8 =>
                   \E k \in 1..Cardinality(named_8) :
                       filenames[i].new_name =
                           create_name_for_8(filenames[i].filename,
                                             filenames[i].type, k)

\* C19: the estimate naming follows the classified type, so a record whose
\* type stayed unknown after both phases holds the new name '?' and an
\* empty estimate number, with every catalog.
C19_UnknownTypeKeepsUnknownName ==
    \A i \in 1..Len(filenames) :
        filenames[i].type = UNKNOWN_TYPE =>
            /\ filenames[i].new_name = UNKNOWN
            /\ filenames[i].estimate_number = <<>>

\* C20: the progress percentage set during a traversal is between 0 and
\* 100 and never decreases within the traversal.
C20_ProgressWithinRangeAndMonotone ==
    [][(pc = "walking" /\ pc' = "walking")
          => (progressBar' \in 0..100 /\
              (files_count > 0 => progressBar' >= progressBar))]_vars

\* the direct call of is_name_valid has returned
Validated == nv_out # NoCall

\* the criteria of the validator, on the arguments of the direct call
NameBlank == Strip(nv_in.new_name) = <<>>

NameHasMarker == "?" \in Range(nv_in.new_name)

NameCollides == CollidesWithOtherRow(nv_in.new_name, nv_in.current_row)

NameHasForeignChar == ~(Range(nv_in.new_name) \subseteq AllowedChars)

NameChangesExtension ==
    StrLower(SplitextExt(nv_in.new_name))
        # StrLower(SplitextExt(Table[nv_in.current_row].filename))

C12_SecondCollidingRowNotShownSelected ==
    (table_is_full /\ edits = 0) =>
        \A first, second \in 1..Len(Table) :
            (first < second /\ Table[first].new_name = Table[second].new_name)
                => /\ ~is_name_valid(Table[second].new_name, second)
                   /\ ~Table[second].checked

\* the pass of the loop of rename_files over the current row changed a file
\* or counted a success
RowOperated ==
    \/ tree' # tree
    \/ filenames' # filenames
    \/ target_files' # target_files
    \/ results'.success # results.success

\* C13: in rename_files no file is renamed or copied unless is_name_valid
\* returned valid for the row's target name at that moment, and a row that
\* fails validation is counted as an error, touches no file, and the batch
\* goes on with the next row.
C13_ValidatorGatesBatch ==
    [][(rn_pc = "renaming" /\ rn_row <= Len(Table) /\ rn_row' # rn_row) =>
          /\ RowOperated => is_name_valid(RowTarget(rn_row), rn_row)
          /\ (RowTaken(rn_row) /\ ~is_name_valid(RowTarget(rn_row), rn_row)) =>
                /\ results' = [results EXCEPT !.errors = @ + 1]
                /\ ~RowOperated
                /\ rn_pc' = "renaming"
                /\ rn_row' = rn_row + 1]_vars

\* a batch in which one row failed validation and a later row was renamed
\* or copied
C13_Witness ==
    \E failed, done \in 1..Len(operations) :
        /\ failed < done
        /\ operations[failed].outcome = "invalid"
        /\ operations[done].outcome \in {"renamed", "copied"}

\* the step is a call of the TagsManager
TagsManagerCalled == tm_calls' # tm_calls

\* C14: add_tag returns False and changes nothing when the type id is
\* unknown or the tag is already in the area, and otherwise appends the tag,
\* writes the store and returns True; remove_tag returns False and changes
\* nothing when the type id is unknown or the tag is not in the area, and
\* otherwise removes it, writes the store and returns True.
C14_AddAndRemoveOutcomes ==
    [][(TagsManagerCalled /\ tm_out'.op \in {"add_tag", "remove_tag"}) =>
          LET call == tm_out'
              present == /\ HasType(call.type_id)
                         /\ call.tag \in Range(TagList(tags_data, call.type_id,
                                                       call.tag_area))
              rejected == IF call.op = "add_tag"
                          THEN ~HasType(call.type_id) \/ present
                          ELSE ~present
          IN  IF rejected
              THEN /\ call.result = "False"
                   /\ tags_data' = tags_data
                   /\ tags_file' = tags_file
              ELSE /\ call.result = "True"
                   /\ TagList(tags_data', call.type_id, call.tag_area) =
                          IF call.op = "add_tag"
                          THEN Append(TagList(tags_data, call.type_id,
                                              call.tag_area), call.tag)
                          ELSE ListRemove(TagList(tags_data, call.type_id,
                                                  call.tag_area), call.tag)
                   /\ tags_file' = tags_data']_vars

\* C15: a call of add_tag, remove_tag or change_mask leaves the catalog in
\* memory and the store both changed or both as they were, and a call whose
\* write of the store fails leaves the catalog in memory as it was.
C15_MutationsAllOrNothing ==
    [][TagsManagerCalled =>
          /\ \/ tags_data' = tags_data /\ tags_file' = tags_file
             \/ tags_data' # tags_data /\ tags_file' = tags_data'
          /\ tm_out'.result = "OSError" => tags_data' = tags_data]_vars

\* no list of name tags or content tags holds a tag twice
NoDuplicateTags ==
    \A k \in 1..Len(tags_data) : \A tag_area \in TagAreas :
        Cardinality(Range(tags_data[k][tag_area])) = Len(tags_data[k][tag_area])

\* the tags that are in a list before and after a step keep their order,
\* and the tags the step adds come after them
SurvivorsKeepOrder ==
    \A k \in 1..Len(tags_data) : \A tag_area \in TagAreas :
        LET old == tags_data[k][tag_area]
            new == tags_data'[k][tag_area]
        IN  /\ SelectSeq(new, LAMBDA t : t \in Range(old))
                   = SelectSeq(old, LAMBDA t : t \in Range(new))
            /\ \A i, j \in 1..Len(new) :
                   (i < j /\ new[j] \in Range(old)) => new[i] \in Range(old)

\* C16: from a catalog without duplicate tags, after any sequence of add_tag
\* and remove_tag calls no list of name tags or content tags holds a tag
\* twice, and the surviving tags keep their insertion order.
C16_NoDuplicatesInInsertionOrder ==
    []NoDuplicateTags /\ [][SurvivorsKeepOrder]_vars

\* the name tags of the local estimate after its tag was removed and two
\* tags were added
C16_Witness ==
    /\ tm_calls = 3
    /\ tags_data[1].mask = "LS-XX-XX-XX-BAZ"
    /\ tags_data[1].name_tags = << <<"n">>, <<"m">> >>

\* the rows of the running batch whose file was renamed or copied
Operated ==
    {i \in 1..Len(operations) : operations[i].outcome \in {"renamed", "copied"}}

\* C21: in one run of rename_files no two rows that were renamed or copied
\* have the same target filename, whether the target is the candidate name
\* of a checked row or the original name of an unchecked row copied along.
C21_OperatedTargetsDistinct ==
    \A first, second \in Operated :
        first # second
            => operations[first].new_name # operations[second].new_name

\* a batch that has operated a checked row under its candidate name and an
\* unchecked row under its original name
C21_Witness ==
    /\ rn_pc = "renaming"
    /\ \E first, second \in Operated :
          /\ Table[operations[first].row].checked
          /\ operations[first].new_name = Table[operations[first].row].new_name
          /\ ~Table[operations[second].row].checked
          /\ operations[second].new_name = operations[second].original_name

====
